---- MODULE Spec2Model ----
(***************************************************************************)
(* Model of the Mathematica MCP server (src/src/index.ts): the tool-call   *)
(* handler, the reachability probe, the derivation verifier and the        *)
(* execution adapter with its temporary file.                              *)
(*                                                                         *)
(* JavaScript runs one continuation at a time, so every action is the code *)
(* between two awaits of one in-flight tool call.  Several tool calls may  *)
(* be in flight at once; they share the temporary directory.               *)
(*                                                                         *)
(* JavaScript strings are sequences of chunks; a chunk is one character or *)
(* a literal of the source that no conversion looks into.                  *)
(***************************************************************************)
EXTENDS Naturals, Sequences, FiniteSets, TLC

\* ---- bounds -------------------------------------------------------------
NumCalls == 2      \* tool calls that may be in flight at once
MaxSteps == 3      \* longest steps array a request carries
MaxLeaked == 1     \* temporary files that failed deletions may leave behind

Calls == 1..NumCalls

\* ---- JavaScript values --------------------------------------------------
Undefined == [t |-> "undefined", v |-> <<>>]
Null      == [t |-> "null", v |-> <<>>]
Str(s)    == [t |-> "string", v |-> s]
Arr(a)    == [t |-> "array", v |-> a]

\* Truthiness of a value, as !x and x || y use it.
Falsy(x) == \/ x.t \in {"undefined", "null"}
            \/ x.t = "string" /\ x.v = <<>>

\* x || y
Or(x, y) == IF Falsy(x) THEN y ELSE x

\* Array.prototype.join(",") over an array of strings.
RECURSIVE Join(_)
Join(a) == IF a = <<>> THEN <<>>
           ELSE IF Len(a) = 1 THEN Head(a)
           ELSE Head(a) \o <<",">> \o Join(Tail(a))

\* String(x): the string a value converts to.
String(x) == CASE x.t = "undefined" -> <<"u", "n", "d", "e", "f", "i", "n", "e", "d">>
               [] x.t = "null"      -> <<"n", "u", "l", "l">>
               [] x.t = "string"    -> x.v
               [] x.t = "array"     -> Join(x.v)

\* Array.isArray(x)
IsArray(x) == x.t = "array"

\* request.params.arguments?.[k]: arguments may be absent, and so may k.
Arg(r, k) == IF r.hasArguments /\ k \in DOMAIN r.arguments
             THEN r.arguments[k] ELSE Undefined

\* ---- string conversions -------------------------------------------------
LowerChar(ch) == CASE ch = "A" -> "a" [] ch = "C" -> "c" [] ch = "E" -> "e"
                   [] ch = "H" -> "h" [] ch = "I" -> "i" [] ch = "L" -> "l"
                   [] ch = "M" -> "m" [] ch = "T" -> "t" [] ch = "X" -> "x"
                   [] OTHER -> ch

\* String.prototype.toLowerCase
ToLowerCase(s) == [i \in 1..Len(s) |-> LowerChar(s[i])]

\* String.prototype.substring(n): the characters from index n (0-based) on.
Substring(s, n) == IF n >= Len(s) THEN <<>> ELSE SubSeq(s, n + 1, Len(s))

IsSpace(ch) == ch \in {" ", "\n", "\t"}

RECURSIVE TrimStart(_)
TrimStart(s) == IF s # <<>> /\ IsSpace(Head(s)) THEN TrimStart(Tail(s)) ELSE s

RECURSIVE TrimEnd(_)
TrimEnd(s) == IF s # <<>> /\ IsSpace(s[Len(s)])
              THEN TrimEnd(SubSeq(s, 1, Len(s) - 1)) ELSE s

\* String.prototype.trim
Trim(s) == TrimEnd(TrimStart(s))


\* ---- errors and responses -----------------------------------------------
\* new McpError(code, message); the SDK prefixes the message with the code.
McpError(code, message) ==
    [code |-> code, message |-> <<"MCP error ", code, ": ">> \o message]

NoResponse == [kind |-> "none", code |-> "", message |-> <<>>,
               content |-> <<>>, isError |-> FALSE, tools |-> <<>>]

\* The handler returns { content: [{ type: "text", text }], isError? }.
ToolResult(text, isError) ==
    [kind |-> "result", code |-> "", message |-> <<>>,
     content |-> <<[type |-> "text", text |-> text]>>, isError |-> isError,
     tools |-> <<>>]

\* The handler throws: the SDK answers with a JSON-RPC error.
ProtocolError(e) ==
    [kind |-> "error", code |-> e.code, message |-> e.message,
     content |-> <<>>, isError |-> FALSE, tools |-> <<>>]

\* ---- the tool registry ---------------------------------------------------
\* The format property both tools declare.
FormatProperty ==
    [type |-> "string", enum |-> <<"text", "latex", "mathematica">>, default |-> "text"]

ToolList_StepsOptional ==
    << [name |-> "execute_mathematica",
        inputSchema |-> [type |-> "object",
                         properties |-> [code |-> [type |-> "string"],
                                         format |-> FormatProperty],
                         required |-> <<"code">>]],
       [name |-> "verify_derivation",
        inputSchema |-> [type |-> "object",
                         properties |-> [steps |-> [type |-> "array",
                                                    items |-> [type |-> "string"]],
                                         format |-> FormatProperty],
                         required |-> <<>>]] >>

\* The tools the ListTools handler returns.
ToolList ==
    << [name |-> "execute_mathematica",
        inputSchema |-> [type |-> "object",
                         properties |-> [code |-> [type |-> "string"],
                                         format |-> FormatProperty],
                         required |-> <<"code">>]],
       [name |-> "verify_derivation",
        inputSchema |-> [type |-> "object",
                         properties |-> [steps |-> [type |-> "array",
                                                    items |-> [type |-> "string"]],
                                         format |-> FormatProperty],
                         required |-> <<"steps">>]] >>

\* The ListTools handler returns { tools: [...] }.
ListResult ==
    [kind |-> "tools", code |-> "", message |-> <<>>,
     content |-> <<>>, isError |-> FALSE, tools |-> ToolList]

UnavailableText ==
    <<"Error: Mathematica (wolframscript) is not installed or not accessible. Please make sure Mathematica is installed and wolframscript is in your PATH.">>

\* ---- executeMathematicaCode: the synchronous prefix ---------------------
FormatOption_CaseSensitive(format) ==
    CASE format = <<"l", "a", "t", "e", "x">> -> "-format latex"
      [] format = <<"m", "a", "t", "h", "e", "m", "a", "t", "i", "c", "a">> -> "-format mathematica"
      [] OTHER -> "-format text"

\* The switch on format.toLowerCase().
FormatOption(format) ==
    LET f == ToLowerCase(format) IN
    CASE f = <<"l", "a", "t", "e", "x">> -> "-format latex"
      [] f = <<"m", "a", "t", "h", "e", "m", "a", "t", "i", "c", "a">> -> "-format mathematica"
      [] OTHER -> "-format text"

\* `mcp_mathematica_${Date.now()}_${Math.random().toString(36).substring(7)}.wl`
\* joined to tmpdir(); rnd is Math.random().toString(36).
TempFilePath(time, rnd) ==
    <<"tmpdir/", "mcp_mathematica_", time, "_">> \o Substring(rnd, 7) \o <<".wl">>

\* `wolframscript ${formatOption} -file "${tempFilePath}"`
EngineCommand(formatOption, tempFilePath) ==
    [program |-> "wolframscript", format |-> formatOption, file |-> tempFilePath]

\* ---- verifyDerivation ---------------------------------------------------
\* The generated program: the template around JSON.stringify(steps).
VerificationCode(steps) ==
    <<"steps = ", [json |-> steps], "; results = {}; For[i = 2, ...]; FormattedResults">>

\* ---- inputs -------------------------------------------------------------
\* Outputs of Math.random().toString(36): 0.5 is "0.i"; a typical value has
\* eleven digits.
\* The milliseconds Date.now() may answer.
Instants == { 1, 2 }

HalfRandom    == <<"0", ".", "i">>
TypicalRandom == <<"0", ".", "4", "f", "z", "y", "o", "8", "2", "m", "v", "y", "r">>
RandomOutputs == { HalfRandom, TypicalRandom }

WriteFailures == { <<"ENOSPC: no space left on device, write">> }
ExecFailures  == { <<"Command failed: wolframscript">> }

Code22    == <<"2", " ", "+", " ", "2">>
CodeBad   == <<"2", " ", "+", " ">>
StepX     == <<"x">>
StepX1    == <<"x", "+", "1">>

LATEX       == <<"l", "a", "t", "e", "x">>
MATHEMATICA == <<"m", "a", "t", "h", "e", "m", "a", "t", "i", "c", "a">>
TEXT        == <<"t", "e", "x", "t">>

FormatValues ==
    { Undefined, Null, Str(<<>>), Str(LATEX), Str(MATHEMATICA), Str(TEXT),
      Str(<<"L", "a", "T", "e", "X">>), Str(<<"L", "A", "T", "E", "X">>),
      Str(<<"M", "a", "t", "h", "e", "m", "a", "t", "i", "c", "a">>),
      Str(<<"T", "E", "X", "T">>), Str(<<"x", "m", "l">>),
      Str(<<"l", "a", "t", "e", "x", " ">>) }

CodeValues == { Undefined, Null, Str(<<>>), Str(Code22), Str(CodeBad) }

RECURSIVE StepArrays(_)
StepArrays(n) ==
    IF n = 0 THEN { <<>> }
    ELSE StepArrays(n - 1)
         \cup { Append(a, StepX) : a \in { b \in StepArrays(n - 1) : Len(b) = n - 1 } }
         \cup { <<StepX, StepX1>> }

StepsValues ==
    { Undefined, Null, Str(<<>>), Str(StepX) } \cup { Arr(a) : a \in StepArrays(MaxSteps) }

NoArguments == [hasArguments |-> FALSE, arguments |-> <<>>]
Arguments(f) == [hasArguments |-> TRUE, arguments |-> f]

Request(name, args) ==
    [name |-> name, hasArguments |-> args.hasArguments, arguments |-> args.arguments]

NoRequest == Request("", NoArguments)

ToolNames == { "execute_mathematica", "verify_derivation", "list_tools", "" }

\* Every request the sequential specification sends: each argument varies
\* over all its values while the others keep a usual value.
Requests ==
    { Request(n, NoArguments) : n \in ToolNames }
    \cup { Request(n, Arguments(<<>>)) : n \in ToolNames }
    \cup { Request("execute_mathematica", Arguments([code |-> c])) : c \in CodeValues }
    \cup { Request("execute_mathematica", Arguments([code |-> Str(Code22), format |-> f])) :
             f \in FormatValues }
    \cup { Request("verify_derivation", Arguments([steps |-> s])) : s \in StepsValues }
    \cup { Request("verify_derivation", Arguments([steps |-> Arr(<<StepX, StepX1>>), format |-> f])) :
             f \in FormatValues }
    \cup { Request("list_tools", Arguments([code |-> Str(Code22), steps |-> Arr(<<StepX, StepX>>)])) }

\* The requests of the concurrent specification.
ConcurrentRequests ==
    { Request("execute_mathematica", Arguments([code |-> Str(Code22)])) }

Stdouts == { <<"4">>, <<" ", "4", "\n">>, <<>> }
Stderrs == { <<>>, <<"warning">> }


\* ---- state --------------------------------------------------------------
VARIABLES
    pc,        \* where each tool call stands: the await it is suspended at
    req,       \* request.params of each tool call
    frame,     \* the locals of the call's executeMathematicaCode invocation
    response,  \* what the handler returned or threw
    fs,        \* the temporary directory: the files that exist
    spawned,   \* the command of every subprocess each call has started
    count,     \* per call: operations performed since the call began
    reachable, \* per call: what its probe found ("unknown" before it ends)
    output,    \* per call: what its engine run wrote before it exited with 0
    warnings   \* per call: the warnings it logged

vars == <<pc, req, frame, response, fs, spawned, count, reachable, output, warnings>>

NoOutcome == [kind |-> "none", value |-> <<>>, error |-> [code |-> "", message |-> <<>>]]
Returned(text) == [kind |-> "return", value |-> text, error |-> [code |-> "", message |-> <<>>]]
Thrown(e) == [kind |-> "throw", value |-> <<>>, error |-> e]

NoFrame == [tool |-> "", formatOption |-> "", tempFilePath |-> <<>>, code |-> <<>>,
            outcome |-> NoOutcome]

\* probe: probes started; adapter: invocations of executeMathematicaCode;
\* write, written: writeFile calls settled and resolved; engine, exited0:
\* engine runs started and ended with status 0; unlink, unlinkOk: unlink
\* calls settled and resolved.
ZeroCount == [probe |-> 0, adapter |-> 0, write |-> 0, written |-> 0,
              engine |-> 0, exited0 |-> 0, unlink |-> 0, unlinkOk |-> 0]

NoOutput == [stdout |-> <<>>, stderr |-> <<>>]

Bump(c, field) == [count EXCEPT ![c][field] = @ + 1]

ProbeCommand == [program |-> "wolframscript", format |-> "-help", file |-> <<>>]

Paths == { f.path : f \in fs }

\* writeFile(path, data): creates the file or replaces its content.
WriteFile(files, path, data) ==
    { f \in files : f.path # path } \cup { [path |-> path, content |-> data] }

Unlink_Nothing(files, path) == files

\* unlink(path)
Unlink(files, path) == { f \in files : f.path # path }

\* The calls inside executeMathematicaCode, and the files no such call holds.
InAdapter(c) == pc[c] \in {"write", "exec", "unlink"}
Leaked == { f \in fs : \A c \in Calls : InAdapter(c) => frame[c].tempFilePath # f.path }

Init ==
    /\ pc = [c \in Calls |-> "idle"]
    /\ req = [c \in Calls |-> NoRequest]
    /\ frame = [c \in Calls |-> NoFrame]
    /\ response = [c \in Calls |-> NoResponse]
    /\ fs = {}
    /\ spawned = [c \in Calls |-> <<>>]
    /\ count = [c \in Calls |-> ZeroCount]
    /\ reachable = [c \in Calls |-> "unknown"]
    /\ output = [c \in Calls |-> NoOutput]
    /\ warnings = [c \in Calls |-> {}]

\* ---- the tool-list handler ----------------------------------------------
\* A tools/list request arrives: the handler answers without awaiting.
ListTools(c) ==
    /\ pc[c] = "idle"
    /\ pc' = [pc EXCEPT ![c] = "listed"]
    /\ response' = [response EXCEPT ![c] = ListResult]
    /\ UNCHANGED <<req, frame, fs, spawned, count, reachable, output, warnings>>

\* ---- the tool-call handler ----------------------------------------------
CallTool_Cached(c, r) ==
    /\ pc[c] = "idle"
    /\ pc' = [pc EXCEPT ![c] = "probe"]
    /\ req' = [req EXCEPT ![c] = r]
    /\ IF \E d \in Calls : reachable[d] = "yes"
       THEN /\ spawned' = [spawned EXCEPT ![c] = <<>>]
            /\ count' = [count EXCEPT ![c] = ZeroCount]
       ELSE /\ spawned' = [spawned EXCEPT ![c] = <<ProbeCommand>>]
            /\ count' = [count EXCEPT ![c] = [ZeroCount EXCEPT !.probe = 1]]
    /\ UNCHANGED <<frame, response, fs, reachable, output, warnings>>

\* A tool call arrives: the handler starts and awaits the probe
\* (checkMathematicaInstallation runs `wolframscript -help`).
CallTool(c, r) ==
    /\ pc[c] = "idle"
    /\ pc' = [pc EXCEPT ![c] = "probe"]
    /\ req' = [req EXCEPT ![c] = r]
    /\ spawned' = [spawned EXCEPT ![c] = <<ProbeCommand>>]
    /\ count' = [count EXCEPT ![c] = [ZeroCount EXCEPT !.probe = 1]]
    /\ UNCHANGED <<frame, response, fs, reachable, output, warnings>>

\* The handler returns or throws.
Finish(c, resp) ==
    /\ pc' = [pc EXCEPT ![c] = "done"]
    /\ response' = [response EXCEPT ![c] = resp]
    /\ frame' = [frame EXCEPT ![c] = NoFrame]

\* executeMathematicaCode(code, format) up to its first await, writeFile.
\* Date.now() reads the wall clock: calls of the same millisecond read the
\* same time, and the system time may be set back between two calls.
\* time is what Date.now() answers, rnd is Math.random().toString(36).
StartAdapter(c, tool, code, format, time, rnd) ==
    /\ frame' = [frame EXCEPT ![c] =
          [tool |-> tool, formatOption |-> FormatOption(format),
           tempFilePath |-> TempFilePath(time, rnd), code |-> code,
           outcome |-> NoOutcome]]
    /\ pc' = [pc EXCEPT ![c] = "write"]
    /\ count' = Bump(c, "adapter")
    /\ UNCHANGED response

\* case "execute_mathematica"
ExecuteMathematica(c, time, rnd) ==
    LET code   == String(Arg(req[c], "code"))
        format == String(Or(Arg(req[c], "format"), Str(TEXT)))
    IN  IF code = <<>>
        THEN /\ Finish(c, ProtocolError(McpError("InvalidParams", <<"Mathematica code is required">>)))
             /\ UNCHANGED count
        ELSE StartAdapter(c, "execute", code, format, time, rnd)

VerifyDerivation_PerStep(c, steps, format, time, rnd) ==
    /\ frame' = [frame EXCEPT ![c] =
          [tool |-> "verify", formatOption |-> FormatOption(format),
           tempFilePath |-> TempFilePath(time, rnd),
           code |-> VerificationCode(SubSeq(steps, 1, 2)), outcome |-> NoOutcome]]
    /\ pc' = [pc EXCEPT ![c] = "write"]
    /\ count' = [count EXCEPT ![c].adapter = @ + Len(steps) - 1]
    /\ UNCHANGED response

\* verifyDerivation(steps, format) up to the await inside executeMathematicaCode.
\* Its own length check throws outside its try block, into the handler's catch.
VerifyDerivation(c, steps, format, time, rnd) ==
    IF Len(steps) < 2
    THEN /\ Finish(c, ToolResult(<<"Error verifying derivation: ">>
                \o McpError("InvalidParams", <<"At least two steps are required for a derivation">>).message,
                TRUE))
         /\ UNCHANGED count
    ELSE StartAdapter(c, "verify", VerificationCode(steps), format, time, rnd)

VerifyDerivationTool_AtLeastOne(c, time, rnd) ==
    LET steps  == Arg(req[c], "steps")
        format == String(Or(Arg(req[c], "format"), Str(TEXT)))
    IN  IF Falsy(steps) \/ ~IsArray(steps) \/ Len(steps.v) < 1
        THEN /\ Finish(c, ProtocolError(McpError("InvalidParams", <<"At least two derivation steps are required">>)))
             /\ UNCHANGED count
        ELSE VerifyDerivation(c, steps.v, format, time, rnd)

\* case "verify_derivation"
VerifyDerivationTool(c, time, rnd) ==
    LET steps  == Arg(req[c], "steps")
        format == String(Or(Arg(req[c], "format"), Str(TEXT)))
    IN  IF Falsy(steps) \/ ~IsArray(steps) \/ Len(steps.v) < 2
        THEN /\ Finish(c, ProtocolError(McpError("InvalidParams", <<"At least two derivation steps are required">>)))
             /\ UNCHANGED count
        ELSE VerifyDerivation(c, steps.v, format, time, rnd)

Dispatch_DefaultExecute(c, time, rnd) ==
    CASE req[c].name = "verify_derivation" -> VerifyDerivationTool(c, time, rnd)
      [] OTHER -> ExecuteMathematica(c, time, rnd)

\* switch (request.params.name)
Dispatch(c, time, rnd) ==
    CASE req[c].name = "execute_mathematica" -> ExecuteMathematica(c, time, rnd)
      [] req[c].name = "verify_derivation"   -> VerifyDerivationTool(c, time, rnd)
      [] OTHER -> /\ Finish(c, ProtocolError(McpError("MethodNotFound", <<"Unknown tool: ", req[c].name>>)))
                  /\ UNCHANGED count

ProbeExit_Unchecked(c, available, time, rnd) ==
    /\ pc[c] = "probe"
    /\ reachable' = [reachable EXCEPT ![c] = IF available THEN "yes" ELSE "no"]
    /\ Dispatch(c, time, rnd)
    /\ UNCHANGED <<req, fs, spawned, output, warnings>>

\* The probe's subprocess ends; the handler goes on to its next await or ends.
ProbeExit(c, available, time, rnd) ==
    /\ pc[c] = "probe"
    /\ IF ~available
       THEN /\ Finish(c, ToolResult(UnavailableText, TRUE))
            /\ UNCHANGED count
       ELSE Dispatch(c, time, rnd)
    /\ reachable' = [reachable EXCEPT ![c] = IF available THEN "yes" ELSE "no"]
    /\ UNCHANGED <<req, fs, spawned, output, warnings>>


\* ---- executeMathematicaCode: after each await ---------------------------
\* The catch block: wraps whatever was thrown in the try block.
ExecutionError(cause) ==
    McpError("InternalError", <<"Failed to execute Mathematica code: ">> \o cause)

\* What the handler makes of the adapter's outcome: the catch block of
\* verifyDerivation and the try/catch of the tool's case.
HandlerResponse_Rethrow(tool, outcome) ==
    IF outcome.kind = "return" THEN ToolResult(outcome.value, FALSE)
    ELSE ProtocolError(outcome.error)

HandlerResponse(tool, outcome) ==
    IF outcome.kind = "return" THEN ToolResult(outcome.value, FALSE)
    ELSE IF tool = "execute"
    THEN ToolResult(<<"Error executing Mathematica code: ">> \o outcome.error.message, TRUE)
    ELSE ToolResult(<<"Error verifying derivation: ">>
            \o McpError("InternalError",
                 <<"Failed to verify derivation: ">> \o outcome.error.message).message,
            TRUE)

\* writeFile resolves: the file holds the code and the engine is spawned.
WriteFileOk(c) ==
    /\ pc[c] = "write"
    /\ fs' = WriteFile(fs, frame[c].tempFilePath, frame[c].code)
    /\ spawned' = [spawned EXCEPT ![c] =
          Append(@, EngineCommand(frame[c].formatOption, frame[c].tempFilePath))]
    /\ count' = [count EXCEPT ![c].write = @ + 1, ![c].written = @ + 1,
                              ![c].engine = @ + 1]
    /\ pc' = [pc EXCEPT ![c] = "exec"]
    /\ UNCHANGED <<req, frame, response, reachable, output, warnings>>

WriteFileFail_NoCleanup(c, cause, created) ==
    /\ pc[c] = "write"
    /\ fs' = IF created THEN WriteFile(fs, frame[c].tempFilePath, <<>>) ELSE fs
    /\ count' = Bump(c, "write")
    /\ Finish(c, HandlerResponse(frame[c].tool, Thrown(ExecutionError(cause))))
    /\ UNCHANGED <<req, spawned, reachable, output, warnings>>

\* writeFile rejects, with or without having created the file: the catch
\* block takes the error and the finally block starts unlink.
WriteFileFail(c, cause, created) ==
    /\ pc[c] = "write"
    /\ fs' = IF created THEN WriteFile(fs, frame[c].tempFilePath, <<>>) ELSE fs
    /\ count' = Bump(c, "write")
    /\ frame' = [frame EXCEPT ![c].outcome = Thrown(ExecutionError(cause))]
    /\ pc' = [pc EXCEPT ![c] = "unlink"]
    /\ UNCHANGED <<req, response, spawned, reachable, output, warnings>>

EngineExitOk_FailOnStderr(c, stdout, stderr) ==
    /\ pc[c] = "exec"
    /\ warnings' = [warnings EXCEPT ![c] =
          IF stderr # <<>> THEN @ \cup {"Mathematica execution produced stderr output"} ELSE @]
    /\ frame' = [frame EXCEPT ![c].outcome =
          IF stderr # <<>> THEN Thrown(ExecutionError(stderr)) ELSE Returned(Trim(stdout))]
    /\ pc' = [pc EXCEPT ![c] = "unlink"]
    /\ count' = Bump(c, "exited0")
    /\ output' = [output EXCEPT ![c] = [stdout |-> stdout, stderr |-> stderr]]
    /\ UNCHANGED <<req, response, fs, spawned, reachable>>

\* The engine exits with status 0: the result is stdout.trim(); the finally
\* block starts unlink.
EngineExitOk(c, stdout, stderr) ==
    /\ pc[c] = "exec"
    /\ warnings' = [warnings EXCEPT ![c] =
          IF stderr # <<>> THEN @ \cup {"Mathematica execution produced stderr output"} ELSE @]
    /\ frame' = [frame EXCEPT ![c].outcome = Returned(Trim(stdout))]
    /\ pc' = [pc EXCEPT ![c] = "unlink"]
    /\ count' = Bump(c, "exited0")
    /\ output' = [output EXCEPT ![c] = [stdout |-> stdout, stderr |-> stderr]]
    /\ UNCHANGED <<req, response, fs, spawned, reachable>>

EngineExitFail_Retry(c, cause) ==
    /\ pc[c] = "exec"
    /\ IF count[c].engine < 2
       THEN /\ spawned' = [spawned EXCEPT ![c] =
                  Append(@, EngineCommand(frame[c].formatOption, frame[c].tempFilePath))]
            /\ count' = Bump(c, "engine")
            /\ UNCHANGED <<frame, pc>>
       ELSE /\ frame' = [frame EXCEPT ![c].outcome = Thrown(ExecutionError(cause))]
            /\ pc' = [pc EXCEPT ![c] = "unlink"]
            /\ UNCHANGED <<spawned, count>>
    /\ UNCHANGED <<req, response, fs, reachable, output, warnings>>

\* The engine fails (non-zero exit, or it could not be spawned).
EngineExitFail(c, cause) ==
    /\ pc[c] = "exec"
    /\ frame' = [frame EXCEPT ![c].outcome = Thrown(ExecutionError(cause))]
    /\ pc' = [pc EXCEPT ![c] = "unlink"]
    /\ UNCHANGED <<req, response, fs, spawned, count, reachable, output, warnings>>

UnlinkFailures == { <<"ENOENT: no such file or directory, unlink">> }

UnlinkDone_Escalate(c, ok) ==
    /\ pc[c] = "unlink"
    /\ ok => frame[c].tempFilePath \in Paths
    /\ (~ok /\ frame[c].tempFilePath \in Paths) => Cardinality(Leaked) < MaxLeaked
    /\ fs' = IF ok THEN Unlink(fs, frame[c].tempFilePath) ELSE fs
    /\ count' = [count EXCEPT ![c].unlink = @ + 1,
                              ![c].unlinkOk = IF ok THEN @ + 1 ELSE @]
    /\ warnings' = [warnings EXCEPT ![c] =
          IF ok THEN @ ELSE @ \cup {"Failed to delete temporary file"}]
    /\ \E cause \in UnlinkFailures :
          Finish(c, HandlerResponse(frame[c].tool,
                   IF ok THEN frame[c].outcome
                   ELSE Thrown([code |-> "", message |-> cause])))
    /\ UNCHANGED <<req, spawned, reachable, output>>

\* unlink settles: executeMathematicaCode returns or throws what the try or
\* catch block left, and the handler answers.
UnlinkDone(c, ok) ==
    /\ pc[c] = "unlink"
    /\ ok => frame[c].tempFilePath \in Paths
    /\ (~ok /\ frame[c].tempFilePath \in Paths) => Cardinality(Leaked) < MaxLeaked
    /\ fs' = IF ok THEN Unlink(fs, frame[c].tempFilePath) ELSE fs
    /\ count' = [count EXCEPT ![c].unlink = @ + 1,
                              ![c].unlinkOk = IF ok THEN @ + 1 ELSE @]
    /\ warnings' = [warnings EXCEPT ![c] =
          IF ok THEN @ ELSE @ \cup {"Failed to delete temporary file"}]
    /\ Finish(c, HandlerResponse(frame[c].tool, frame[c].outcome))
    /\ UNCHANGED <<req, spawned, reachable, output>>

\* The response has been sent; the next tool call may take the slot.
Release(c) ==
    /\ pc[c] \in {"done", "listed"}
    /\ pc' = [pc EXCEPT ![c] = "idle"]
    /\ req' = [req EXCEPT ![c] = NoRequest]
    /\ response' = [response EXCEPT ![c] = NoResponse]
    /\ spawned' = [spawned EXCEPT ![c] = <<>>]
    /\ count' = [count EXCEPT ![c] = ZeroCount]
    /\ reachable' = [reachable EXCEPT ![c] = "unknown"]
    /\ output' = [output EXCEPT ![c] = NoOutput]
    /\ warnings' = [warnings EXCEPT ![c] = {}]
    /\ UNCHANGED <<frame, fs>>

\* ---- specifications -----------------------------------------------------
\* Concurrent tool calls.
Next ==
    \/ \E c \in Calls, r \in ConcurrentRequests : CallTool(c, r)
    \/ \E c \in Calls, available \in BOOLEAN, time \in Instants, rnd \in RandomOutputs :
          ProbeExit(c, available, time, rnd)
    \/ \E c \in Calls : WriteFileOk(c)
    \/ \E c \in Calls, cause \in WriteFailures : WriteFileFail(c, cause, FALSE)
    \/ \E c \in Calls : EngineExitOk(c, <<" ", "4", "\n">>, <<>>)
    \/ \E c \in Calls, cause \in ExecFailures : EngineExitFail(c, cause)
    \/ \E c \in Calls, ok \in BOOLEAN : UnlinkDone(c, ok)
    \/ \E c \in Calls : Release(c)

Spec == Init /\ [][Next]_vars

\* One tool call at a time, over every request.
SeqNext ==
    \/ ListTools(1)
    \/ \E r \in Requests : CallTool(1, r)
    \/ \E available \in BOOLEAN, time \in Instants, rnd \in RandomOutputs :
          ProbeExit(1, available, time, rnd)
    \/ WriteFileOk(1)
    \/ \E cause \in WriteFailures, created \in BOOLEAN : WriteFileFail(1, cause, created)
    \/ \E stdout \in Stdouts, stderr \in Stderrs : EngineExitOk(1, stdout, stderr)
    \/ \E cause \in ExecFailures : EngineExitFail(1, cause)
    \/ \E ok \in BOOLEAN : UnlinkDone(1, ok)
    \/ Release(1)

SeqSpec == Init /\ [][SeqNext]_vars

\* unlink settles and is rejected only when there is no file to delete.
UnlinkSettles(c) == UnlinkDone(c, frame[c].tempFilePath \in Paths)

\* Concurrent tool calls of one millisecond whose deletions do not fail.
LiveNext ==
    \/ \E c \in Calls, r \in ConcurrentRequests : CallTool(c, r)
    \/ \E c \in Calls, available \in BOOLEAN, rnd \in RandomOutputs :
          ProbeExit(c, available, 1, rnd)
    \/ \E c \in Calls : WriteFileOk(c)
    \/ \E c \in Calls, cause \in WriteFailures, created \in BOOLEAN :
          WriteFileFail(c, cause, created)
    \/ \E c \in Calls : EngineExitOk(c, <<" ", "4", "\n">>, <<>>)
    \/ \E c \in Calls, cause \in ExecFailures : EngineExitFail(c, cause)
    \/ \E c \in Calls : UnlinkSettles(c)
    \/ \E c \in Calls : Release(c)

\* The file system settles every writeFile and unlink, and every engine run
\* ends; nothing obliges a client to send a call or the probe to end.
LiveFairness ==
    \A c \in Calls :
        /\ WF_vars(WriteFileOk(c)
                     \/ \E cause \in WriteFailures, created \in BOOLEAN :
                           WriteFileFail(c, cause, created))
        /\ WF_vars(EngineExitOk(c, <<" ", "4", "\n">>, <<>>)
                     \/ \E cause \in ExecFailures : EngineExitFail(c, cause))
        /\ WF_vars(UnlinkSettles(c))

LiveSpec == Init /\ [][LiveNext]_vars /\ LiveFairness

TypeOK ==
    /\ pc \in [Calls -> {"idle", "listed", "probe", "write", "exec", "unlink", "done"}]


\* ---- vocabulary of the properties ---------------------------------------
Done(c) == pc[c] = "done"

\* The engine runs a call has started: its subprocesses other than the probe.
EngineRuns(c) == { i \in DOMAIN spawned[c] : spawned[c][i] # ProbeCommand }

\* The response is a normal result of exactly one text block.
OneTextBlock(resp) ==
    /\ resp.kind = "result"
    /\ Len(resp.content) = 1
    /\ resp.content[1].type = "text"

\* The response is a normal result flagged as an error, with a message.
ErrorResult(resp) ==
    /\ OneTextBlock(resp)
    /\ resp.isError
    /\ resp.content[1].text # <<>>

\* The call failed with a protocol-level error of the given code.
Failed(resp, code) == resp.kind = "error" /\ resp.code = code

ToolCallNames == { "execute_mathematica", "verify_derivation" }

\* ---- C1 -----------------------------------------------------------------
\* C1: whenever a tool call has ended, one unlink of the temporary file has
\* settled for every invocation of executeMathematicaCode it made, whatever
\* the outcome of the write and of the engine; and the step in which the
\* unlink resolves leaves no file at the invocation's path.
C1_CleanupAlwaysAttempted ==
    /\ [](\A c \in Calls : Done(c) => count[c].unlink = count[c].adapter)
    /\ [][\A c \in Calls :
            (pc[c] = "unlink" /\ pc'[c] = "done" /\ count'[c].unlinkOk = count[c].unlinkOk + 1)
                => ~(\E f \in fs' : f.path = frame[c].tempFilePath)]_vars

\* A call whose write failed has ended with its unlink attempted.
C1_Witness ==
    \E c \in Calls : /\ Done(c)
                     /\ count[c].adapter = 1 /\ count[c].write = 1 /\ count[c].written = 0
                     /\ count[c].unlink = 1

\* ---- C2 -----------------------------------------------------------------
\* The steps argument is missing, is not an array, or has fewer than two
\* elements.
BadSteps(r) ==
    LET steps == Arg(r, "steps") IN steps.t # "array" \/ Len(steps.v) < 2

\* C2 as stated: a verify_derivation call with such steps ends with
\* InvalidParams, and no subprocess at all is spawned for it.
C2_Original ==
    \A c \in Calls :
        (req[c].name = "verify_derivation" /\ BadSteps(req[c]))
            => /\ spawned[c] = <<>>
               /\ Done(c) => Failed(response[c], "InvalidParams")

\* C2 amended: the reachability probe runs first; when it succeeds, a
\* verify_derivation call with such steps ends with InvalidParams and spawns
\* no subprocess other than the probe; it never invokes the adapter.
C2_InvalidStepsRejected ==
    \A c \in Calls :
        (req[c].name = "verify_derivation" /\ BadSteps(req[c]))
            => /\ EngineRuns(c) = {}
               /\ count[c].adapter = 0 /\ count[c].write = 0
               /\ (Done(c) /\ reachable[c] = "yes") => Failed(response[c], "InvalidParams")

\* A one-step derivation was rejected after a successful probe.
C2_Witness ==
    \E c \in Calls : /\ Done(c) /\ reachable[c] = "yes"
                     /\ req[c].name = "verify_derivation"
                     /\ Arg(req[c], "steps").t = "array"
                     /\ Len(Arg(req[c], "steps").v) = 1
                     /\ Failed(response[c], "InvalidParams")

\* ---- C3 -----------------------------------------------------------------
\* The adapter of an ended call failed: it was invoked and its engine did not
\* exit with status 0 (the write threw, or the engine failed).
AdapterFailed(c) == Done(c) /\ count[c].adapter = 1 /\ count[c].exited0 = 0

ErrorPrefixes == { "Error executing Mathematica code: ", "Error verifying derivation: " }

\* C3: when the probe succeeded and the adapter failed, the call ends with a
\* normal response of one text block, flagged isError, whose text names the
\* tool's failure and ends with the cause; never with a protocol error.
C3_FailureIsErrorResult ==
    \A c \in Calls :
        (AdapterFailed(c) /\ reachable[c] = "yes")
            => /\ ErrorResult(response[c])
               /\ Head(response[c].content[1].text) \in ErrorPrefixes
               /\ <<response[c].content[1].text[Len(response[c].content[1].text)]>>
                      \in WriteFailures \cup ExecFailures

\* A verify_derivation call whose engine failed has ended.
C3_Witness ==
    \E c \in Calls : /\ AdapterFailed(c) /\ count[c].engine = 1
                     /\ req[c].name = "verify_derivation"
                     /\ response[c].isError

\* ---- C4 -----------------------------------------------------------------
\* C4: a call whose probe failed ends with a normal response of one text
\* block flagged isError, has started no subprocess but the probe, has
\* written no file and has not invoked the adapter.
C4_UnavailableShortCircuits ==
    \A c \in Calls :
        (Done(c) /\ reachable[c] = "no")
            => /\ ErrorResult(response[c])
               /\ spawned[c] = <<ProbeCommand>>
               /\ count[c].adapter = 0 /\ count[c].write = 0

\* A well-formed execute_mathematica call ended on a failed probe.
C4_Witness ==
    \E c \in Calls : /\ Done(c) /\ reachable[c] = "no"
                     /\ req[c].name = "execute_mathematica"
                     /\ Arg(req[c], "code") = Str(Code22)

\* ---- C5 -----------------------------------------------------------------
\* C5 as stated, for calls whose probe succeeded: an execute_mathematica
\* call without a code argument writes no file, runs no engine, and ends
\* with InvalidParams.
C5_Original ==
    \A c \in Calls :
        (req[c].name = "execute_mathematica" /\ Arg(req[c], "code").t = "undefined"
           /\ pc[c] # "probe")
            => /\ count[c].write = 0
               /\ EngineRuns(c) = {}
               /\ (Done(c) /\ reachable[c] = "yes") => Failed(response[c], "InvalidParams")

\* ---- C6 -----------------------------------------------------------------
\* C6 as stated: a call of an unknown tool ends with MethodNotFound and
\* neither writes a file nor invokes the adapter.
C6_Original ==
    \A c \in Calls :
        (pc[c] # "idle" /\ req[c].name \notin ToolCallNames)
            => /\ count[c].adapter = 0 /\ count[c].write = 0
               /\ Done(c) => Failed(response[c], "MethodNotFound")

\* C6 amended: a call of an unknown tool neither writes a file nor invokes
\* the adapter, and when its probe succeeded it ends with MethodNotFound.
C6_UnknownToolRejected ==
    \A c \in Calls :
        (pc[c] # "idle" /\ req[c].name \notin ToolCallNames)
            => /\ count[c].adapter = 0 /\ count[c].write = 0
               /\ EngineRuns(c) = {}
               /\ (Done(c) /\ reachable[c] = "yes") => Failed(response[c], "MethodNotFound")

\* A call of an unknown tool that carries code and steps was rejected.
C6_Witness ==
    \E c \in Calls : /\ Done(c) /\ reachable[c] = "yes"
                     /\ req[c].name = "list_tools"
                     /\ Arg(req[c], "code") = Str(Code22)
                     /\ Failed(response[c], "MethodNotFound")


\* ---- C7 -----------------------------------------------------------------
\* C7 as stated: an ended call that invoked the adapter has started the
\* engine exactly once, whatever the outcome.
C7_Original ==
    \A c \in Calls :
        (Done(c) /\ count[c].adapter = 1) => Cardinality(EngineRuns(c)) = 1

\* C7 amended: a call invokes the adapter at most once and starts the engine
\* at most once, never again after a failure: exactly once when the write of
\* the temporary file succeeded and not at all when it failed; a call whose
\* adapter failed ends at once with an error result.
C7_EngineSpawnedAtMostOnce ==
    \A c \in Calls :
        /\ count[c].adapter <= 1
        /\ Cardinality(EngineRuns(c)) <= 1
        /\ Cardinality(EngineRuns(c)) = count[c].written
        /\ (Done(c) /\ count[c].adapter = 1)
              => /\ count[c].write = 1
                 /\ Cardinality(EngineRuns(c)) = (IF count[c].written = 1 THEN 1 ELSE 0)
        /\ AdapterFailed(c) => response[c].isError

\* A call whose engine was started and failed has ended.
C7_Witness ==
    \E c \in Calls : /\ AdapterFailed(c)
                     /\ count[c].written = 1
                     /\ Cardinality(EngineRuns(c)) = 1

\* ---- C8 -----------------------------------------------------------------
\* The steps argument is an array of at least two elements.
GoodSteps(r) ==
    LET steps == Arg(r, "steps") IN steps.t = "array" /\ Len(steps.v) >= 2

\* C8: a verify_derivation call whose probe succeeded and whose steps are an
\* array of two or more invokes the adapter exactly once, whatever the number
\* of steps, with the program generated from all the steps; it settles one
\* write and starts at most one engine run.
C8_VerifierCallsAdapterOnce ==
    \A c \in Calls :
        (req[c].name = "verify_derivation" /\ GoodSteps(req[c]) /\ reachable[c] = "yes")
            => /\ count[c].adapter = 1
               /\ InAdapter(c) => frame[c].code = VerificationCode(Arg(req[c], "steps").v)
               /\ count[c].write <= 1
               /\ Cardinality(EngineRuns(c)) <= 1
               /\ Done(c) => count[c].write = 1

\* A derivation of three steps was verified in one engine run.
C8_Witness ==
    \E c \in Calls : /\ Done(c)
                     /\ req[c].name = "verify_derivation"
                     /\ GoodSteps(req[c])
                     /\ Len(Arg(req[c], "steps").v) = 3
                     /\ count[c].adapter = 1
                     /\ Cardinality(EngineRuns(c)) = 1
                     /\ count[c].exited0 = 1

\* ---- C9 -----------------------------------------------------------------
\* C9 as stated: no two calls that are inside executeMathematicaCode at the
\* same time hold the same temporary file path.
C9_Original ==
    \A c, d \in Calls :
        (c # d /\ InAdapter(c) /\ InAdapter(d))
            => frame[c].tempFilePath # frame[d].tempFilePath

\* ---- C10 ----------------------------------------------------------------
LatexSpellings ==
    { <<"l", "a", "t", "e", "x">>, <<"L", "a", "T", "e", "X">>, <<"L", "A", "T", "E", "X">> }

MathematicaSpellings ==
    { <<"m", "a", "t", "h", "e", "m", "a", "t", "i", "c", "a">>,
      <<"M", "a", "t", "h", "e", "m", "a", "t", "i", "c", "a">> }

\* The flag the format argument stands for.
ExpectedFlag(format) ==
    IF format.t = "string" /\ format.v \in LatexSpellings THEN "-format latex"
    ELSE IF format.t = "string" /\ format.v \in MathematicaSpellings THEN "-format mathematica"
    ELSE "-format text"

\* The request is one the tool accepts, whatever its format.
WellFormed(r) ==
    \/ r.name = "execute_mathematica" /\ Arg(r, "code").t = "string" /\ Arg(r, "code").v # <<>>
    \/ r.name = "verify_derivation" /\ GoodSteps(r)

\* C10: a well-formed call whose probe succeeded reaches the adapter whatever
\* its format argument, and every engine run it starts carries the flag of
\* its format: latex, mathematica or text in any letter case give their own
\* flag, and a missing, empty or unrecognized format gives '-format text'.
C10_FormatFlag ==
    \A c \in Calls :
        (WellFormed(req[c]) /\ reachable[c] = "yes")
            => /\ count[c].adapter = 1
               /\ InAdapter(c) => frame[c].formatOption = ExpectedFlag(Arg(req[c], "format"))
               /\ \A i \in EngineRuns(c) :
                     spawned[c][i].format = ExpectedFlag(Arg(req[c], "format"))
               /\ Done(c) => response[c].kind = "result"

\* An engine run was started with '-format latex' for the format "LaTeX".
C10_Witness ==
    \E c \in Calls : /\ pc[c] = "exec"
                     /\ Arg(req[c], "format").t = "string"
                     /\ Arg(req[c], "format").v = <<"L", "a", "T", "e", "X">>
                     /\ \E i \in EngineRuns(c) : spawned[c][i].format = "-format latex"


\* ---- C11 ----------------------------------------------------------------
\* C11: whatever requests came before, a tools/list request is answered with
\* exactly two tools, execute_mathematica and verify_derivation in this
\* order; the first requires code and the second requires steps, and both
\* declare a string format with enum text, latex, mathematica and default
\* text.  Listing starts no subprocess and writes no file.
C11_TwoToolsListed ==
    \A c \in Calls :
        pc[c] = "listed"
            => LET tools == response[c].tools IN
               /\ response[c].kind = "tools"
               /\ Len(tools) = 2
               /\ tools[1].name = "execute_mathematica"
               /\ tools[2].name = "verify_derivation"
               /\ tools[1].inputSchema.required = <<"code">>
               /\ tools[2].inputSchema.required = <<"steps">>
               /\ DOMAIN tools[1].inputSchema.properties = {"code", "format"}
               /\ DOMAIN tools[2].inputSchema.properties = {"steps", "format"}
               /\ tools[1].inputSchema.properties.code.type = "string"
               /\ tools[2].inputSchema.properties.steps.type = "array"
               /\ tools[2].inputSchema.properties.steps.items.type = "string"
               /\ \A i \in 1..2 :
                     /\ tools[i].inputSchema.type = "object"
                     /\ tools[i].inputSchema.properties.format.type = "string"
                     /\ tools[i].inputSchema.properties.format.enum
                           = <<"text", "latex", "mathematica">>
                     /\ tools[i].inputSchema.properties.format.default = "text"
               /\ spawned[c] = <<>>
               /\ count[c] = ZeroCount

\* The tools were listed while an earlier failed deletion had left a file.
C11_Witness ==
    \E c \in Calls : pc[c] = "listed" /\ response[c].tools # <<>> /\ fs # {}


\* ---- C12 ----------------------------------------------------------------
\* What trimming makes of each standard output the engine may write.
ExpectedTrimmed(stdout) ==
    CASE stdout = <<"4">>            -> <<"4">>
      [] stdout = <<" ", "4", "\n">> -> <<"4">>
      [] stdout = <<>>               -> <<>>

\* The engine of an ended call exited with status 0.
EngineSucceeded(c) == Done(c) /\ count[c].adapter = 1 /\ count[c].exited0 = 1

\* C12: when the engine exited with status 0, the call ends with one text
\* block holding the trimmed standard output and no error flag, whether or
\* not the engine wrote to standard error; what it wrote there is logged as
\* a warning and nothing else.
C12_StderrOnlyWarns ==
    \A c \in Calls :
        EngineSucceeded(c)
            => /\ OneTextBlock(response[c])
               /\ ~response[c].isError
               /\ response[c].content[1].text = ExpectedTrimmed(output[c].stdout)
               /\ ("Mathematica execution produced stderr output" \in warnings[c])
                     <=> output[c].stderr # <<>>

\* An engine that wrote " 4\n" and a warning has been answered with "4".
C12_Witness ==
    \E c \in Calls : /\ EngineSucceeded(c)
                     /\ output[c].stderr # <<>>
                     /\ output[c].stdout = <<" ", "4", "\n">>
                     /\ response[c].content[1].text = <<"4">>

\* ---- C15 ----------------------------------------------------------------
\* The unlink of an ended call's adapter invocation was rejected.
DeleteFailed(c) ==
    Done(c) /\ count[c].adapter = 1 /\ count[c].unlink = 1 /\ count[c].unlinkOk = 0

\* C15: when the unlink is rejected the call ends as it would have ended
\* otherwise: with the trimmed standard output and no error flag when the
\* engine exited with status 0, and with the error result of the execution
\* error (its text ends with the cause of the write or engine failure) when
\* it did not; the rejection is logged as a warning.
C15_DeleteFailureOnlyLogged ==
    \A c \in Calls :
        DeleteFailed(c)
            => /\ "Failed to delete temporary file" \in warnings[c]
               /\ OneTextBlock(response[c])
               /\ count[c].exited0 = 1
                    => /\ ~response[c].isError
                       /\ response[c].content[1].text = ExpectedTrimmed(output[c].stdout)
               /\ count[c].exited0 = 0
                    => LET text == response[c].content[1].text IN
                       /\ response[c].isError
                       /\ \E i \in DOMAIN text : text[i] = "Failed to execute Mathematica code: "
                       /\ <<text[Len(text)]>> \in WriteFailures \cup ExecFailures

\* A call whose engine failed and whose unlink was rejected has ended.
C15_Witness ==
    \E c \in Calls : /\ DeleteFailed(c)
                     /\ count[c].written = 1 /\ count[c].exited0 = 0
                     /\ response[c].isError


\* ---- C14 ----------------------------------------------------------------
\* The probes among the subprocesses a call has started.
ProbeRuns(c) == { i \in DOMAIN spawned[c] : spawned[c][i] = ProbeCommand }

\* The call is a tool call in flight or ended.
ToolCall(c) == pc[c] \in {"probe", "write", "exec", "unlink", "done"}

\* C14: every tool call has started exactly one probe, as its first
\* subprocess, whatever the probes of other calls have found; while its
\* probe runs it has dispatched nothing (no adapter invocation, no answer),
\* and it goes past the probe only with the probe's own finding.
C14_ProbeOncePerCall ==
    \A c \in Calls :
        ToolCall(c)
            => /\ count[c].probe = 1
               /\ Cardinality(ProbeRuns(c)) = 1
               /\ spawned[c][1] = ProbeCommand
               /\ pc[c] = "probe"
                    => /\ reachable[c] = "unknown"
                       /\ count[c].adapter = 0
                       /\ Len(spawned[c]) = 1
                       /\ response[c] = NoResponse
               /\ pc[c] # "probe" => reachable[c] # "unknown"
               /\ count[c].adapter > 0 => reachable[c] = "yes"

\* A call runs its own probe while another call's probe has found the engine.
C14_Witness ==
    \E c, d \in Calls : /\ c # d
                        /\ reachable[d] = "yes"
                        /\ pc[c] = "probe"
                        /\ spawned[c] = <<ProbeCommand>>


\* ---- C13 ----------------------------------------------------------------
\* Every path an adapter invocation may choose.
AllPaths == { TempFilePath(time, rnd) : time \in Instants, rnd \in RandomOutputs }

\* C13: when every engine run ends and no unlink of an existing file is
\* rejected, every temporary file that exists is eventually deleted; and no
\* call has settled an unlink while its write or its engine run is pending,
\* so the deletion waits for the engine to exit.
C13_EventuallyDeleted ==
    /\ \A p \in AllPaths : (p \in Paths) ~> (p \notin Paths)
    /\ [](\A c \in Calls : pc[c] \in {"write", "exec"} => count[c].unlink = 0)

\* A call has ended after its engine ran, and its file is gone.
C13_Witness ==
    \E c \in Calls : /\ Done(c)
                     /\ count[c].written = 1 /\ count[c].unlinkOk = 1
                     /\ fs = {}


\* ---- C16 ----------------------------------------------------------------
\* The order of the steps inside one invocation of executeMathematicaCode:
\* the engine is spawned only by a writeFile that resolved, and no unlink is
\* started before the engine run has ended.
C16_Ordering ==
    \A c \in Calls :
        /\ Cardinality(EngineRuns(c)) = count[c].written
        /\ pc[c] = "write" => count[c].written = 0
        /\ pc[c] = "exec" => count[c].written = 1 /\ count[c].unlink = 0

\* C16 as stated: the steps of an invocation are ordered, so for the whole
\* run of its engine the temporary file exists and holds the call's code.
C16_Original ==
    /\ C16_Ordering
    /\ \A c \in Calls :
          pc[c] = "exec"
              => \E f \in fs : /\ f.path = frame[c].tempFilePath
                              /\ f.content = frame[c].code

====
